---- MODULE Spec2Model ----
(***************************************************************************)
(* The two model generators of ui/scripts:                                 *)
(*   create_spending_model.py  builds one ONNX graph by hand (numpy seed   *)
(*                             42), checks it, saves it and copies it to   *)
(*                             the prover directory when that exists;      *)
(*   generate-models.py        builds one torch DecisionModel per entry of *)
(*                             MODELS, seeds torch from hash(name),        *)
(*                             exports, reloads and checks each.           *)
(* A process runs one script's main(); Restart starts the same script      *)
(* again as a new process, so that two executions can be compared.         *)
(***************************************************************************)
EXTENDS Integers, Sequences, FiniteSets, TLC

VARIABLES
    script,       \* which script this process runs: "spending" or "batch"
    run,          \* number of the execution (1 = first)
    pc,           \* position inside main()
    hashKey,      \* the process's string-hash key (PYTHONHASHSEED)
    rng,          \* state of the global random generator (numpy / torch)
    proverDir,    \* spending: does the prover models directory exist
    model,        \* spending: the ModelProto built by create_spending_model
    idx,          \* batch: number of MODELS entries the loop has taken
    net,          \* batch: parameter values of the DecisionModel in hand
    weights,      \* model name -> parameter values initialised this run
    prevWeights,  \* the same, as left by the previous execution
    files,        \* model name -> what this run has written at its primary path
    validated,    \* model names on which onnx.checker.check_model passed
    generated,    \* batch: the list `generated`
    attempted,    \* batch: names passed to generate_model, in call order
    errors,       \* batch: names whose exception the loop caught and logged
    stdout,       \* spending: the reports main() has printed so far
    reported,     \* batch: the count printed by "Generated N models"
    raisedAt      \* the step whose exception left main uncaught, or "none"

vars == <<script, run, pc, hashKey, rng, proverDir, model, idx, net, weights,
          prevWeights, files, validated, generated, attempted, errors,
          stdout, reported, raisedAt>>

\* ---------------------------------------------------------------- bounds
MaxRuns == 2
MaxHashKey == 1
MaxEntropy == 1

HashKeys == 0..MaxHashKey
Entropy == 0..MaxEntropy

\* An absent value: optional values are sequences of length 0 or 1.
Nothing == <<>>

Some(v) == <<v>>

\* ------------------------------------------------- random generator model
\* A deterministic generator is fully described by what seeded it and how
\* many values it has produced since.
Unseeded(e) == [src |-> "entropy", seed |-> e, pos |-> 0]

Seeded(s) == [src |-> "seed", seed |-> s, pos |-> 0]

\* n values drawn from generator g: a buffer identified by the generator
\* state it was drawn from.
Draw(g, n) == [src |-> g.src, seed |-> g.seed, pos |-> g.pos, n |-> n]

Advance(g, n) == [g EXCEPT !.pos = g.pos + n]

Zeros(n) == [src |-> "zeros", seed |-> 0, pos |-> 0, n |-> n]

RECURSIVE Product(_)
Product(shape) ==
    IF shape = <<>> THEN 1 ELSE Head(shape) * Product(Tail(shape))

\* ------------------------------------------ create_spending_model.py
SpendingName == "spending-model"

NumpySeed == 42

OpsetVersion == 11

IrVersion == 6

InputTensor == [name |-> "input", shape |-> <<1, 8>>]

OutputTensor == [name |-> "output", shape |-> <<1, 3>>]

\* np.random.randn(*shape).astype(np.float32) * 0.1, wrapped by
\* numpy_helper.from_array(..., name): the buffer holds Product(shape) values
\* taken from the global generator in its current state.
RandnInit(name, shape, g) ==
    [name |-> name, shape |-> shape, data |-> Draw(g, Product(shape))]

\* np.zeros(n) wrapped by numpy_helper.from_array(..., name)
ZerosInit(name, n) ==
    [name |-> name, shape |-> <<n>>, data |-> Zeros(n)]

\* The six initializers, in the order of the `initializer=` list; the three
\* randn calls consume the global generator g1 in turn.
SpendingInitializers(g1) ==
    LET g2 == Advance(g1, Product(<<8, 16>>))
        g3 == Advance(g2, Product(<<16, 8>>))
    IN  << RandnInit("fc1_weight", <<8, 16>>, g1), ZerosInit("fc1_bias", 16),
           RandnInit("fc2_weight", <<16, 8>>, g2), ZerosInit("fc2_bias", 8),
           RandnInit("fc3_weight", <<8, 3>>, g3),  ZerosInit("fc3_bias", 3) >>

\* The generator state create_spending_model leaves behind.
SpendingRngAfter(g1) ==
    Advance(g1,
            Product(<<8, 16>>) + Product(<<16, 8>>) + Product(<<8, 3>>))

\* np.random.seed(42)
NumpySeeded(g) == Seeded(NumpySeed)

MakeNode(op, inputs, outputs) ==
    [op_type |-> op, input |-> inputs, output |-> outputs]

NodesAddFirst ==
    << MakeNode("Add",    <<"fc1_mm", "fc1_bias">>,     <<"fc1_out">>),
       MakeNode("MatMul", <<"input", "fc1_weight">>,    <<"fc1_mm">>),
       MakeNode("Relu",   <<"fc1_out">>,                <<"fc1_relu">>),
       MakeNode("MatMul", <<"fc1_relu", "fc2_weight">>, <<"fc2_mm">>),
       MakeNode("Add",    <<"fc2_mm", "fc2_bias">>,     <<"fc2_out">>),
       MakeNode("Relu",   <<"fc2_out">>,                <<"fc2_relu">>),
       MakeNode("MatMul", <<"fc2_relu", "fc3_weight">>, <<"fc3_mm">>),
       MakeNode("Add",    <<"fc3_mm", "fc3_bias">>,     <<"output">>) >>

NodesReusedName ==
    << MakeNode("MatMul", <<"input", "fc1_weight">>,    <<"fc1_mm">>),
       MakeNode("Add",    <<"fc1_mm", "fc1_bias">>,     <<"fc1_out">>),
       MakeNode("Relu",   <<"fc1_out">>,                <<"fc1_relu">>),
       MakeNode("MatMul", <<"fc1_relu", "fc2_weight">>, <<"fc1_mm">>),
       MakeNode("Add",    <<"fc1_mm", "fc2_bias">>,     <<"fc2_out">>),
       MakeNode("Relu",   <<"fc2_out">>,                <<"fc2_relu">>),
       MakeNode("MatMul", <<"fc2_relu", "fc3_weight">>, <<"fc3_mm">>),
       MakeNode("Add",    <<"fc3_mm", "fc3_bias">>,     <<"output">>) >>

\* The `nodes=` list of helper.make_graph.
SpendingNodes ==
    << MakeNode("MatMul", <<"input", "fc1_weight">>,    <<"fc1_mm">>),
       MakeNode("Add",    <<"fc1_mm", "fc1_bias">>,     <<"fc1_out">>),
       MakeNode("Relu",   <<"fc1_out">>,                <<"fc1_relu">>),
       MakeNode("MatMul", <<"fc1_relu", "fc2_weight">>, <<"fc2_mm">>),
       MakeNode("Add",    <<"fc2_mm", "fc2_bias">>,     <<"fc2_out">>),
       MakeNode("Relu",   <<"fc2_out">>,                <<"fc2_relu">>),
       MakeNode("MatMul", <<"fc2_relu", "fc3_weight">>, <<"fc3_mm">>),
       MakeNode("Add",    <<"fc3_mm", "fc3_bias">>,     <<"output">>) >>

MakeGraph(g1) ==
    [nodes       |-> SpendingNodes,
     name        |-> "SpendingModel",
     inputs      |-> <<InputTensor>>,
     outputs     |-> <<OutputTensor>>,
     initializer |-> SpendingInitializers(g1)]

MakeModel(g1) ==
    [graph |-> MakeGraph(g1), opset |-> OpsetVersion, ir_version |-> IrVersion]

Range(s) == {s[i] : i \in DOMAIN s}

\* onnx.checker.check_model on the hand-built model: the node list is
\* topologically sorted (every input is a graph input, an initializer or the
\* output of an earlier node) and in single-assignment form.
CheckModel(m) ==
    LET g == m.graph
        given == {t.name : t \in Range(g.inputs)}
                   \cup {t.name : t \in Range(g.initializer)}
        before(k) == UNION {Range(g.nodes[j].output) : j \in 1..(k - 1)}
    IN  /\ m.ir_version > 0
        /\ m.opset > 0
        /\ \A k \in DOMAIN g.nodes :
              /\ Range(g.nodes[k].input) \subseteq (given \cup before(k))
              /\ Range(g.nodes[k].output) \cap (given \cup before(k)) = {}
        /\ \A t \in Range(g.outputs) :
              \E k \in DOMAIN g.nodes : t.name \in Range(g.nodes[k].output)

\* ------------------------------------------------- generate-models.py
\* MODELS, in insertion order (the order MODELS.items() yields).
Catalog ==
    << "trading-signal", "opportunity-detector", "risk-scorer",
       "sentiment-classifier", "threshold-checker", "anomaly-detector" >>

MODELS ==
    [n \in Range(Catalog) |->
        CASE n = "trading-signal"       -> [input_size |-> 10]
          [] n = "opportunity-detector" -> [input_size |-> 8]
          [] n = "risk-scorer"          -> [input_size |-> 6]
          [] n = "sentiment-classifier" -> [input_size |-> 128]
          [] n = "threshold-checker"    -> [input_size |-> 4]
          [] n = "anomaly-detector"     -> [input_size |-> 16]]

HiddenSize == 16

Linear(name, in_features, out_features) ==
    [name |-> name, in_features |-> in_features, out_features |-> out_features]

DecisionModelWideFc3(input_size, hidden_size) ==
    << Linear("fc1", input_size, hidden_size),
       Linear("fc2", hidden_size, hidden_size \div 2),
       Linear("fc3", hidden_size, 1) >>

\* DecisionModel.__init__: the three Linear layers, in definition order.
DecisionModel(input_size, hidden_size) ==
    << Linear("fc1", input_size, hidden_size),
       Linear("fc2", hidden_size, hidden_size \div 2),
       Linear("fc3", hidden_size \div 2, 1) >>

\* model.parameters(): weight then bias of each layer, in layer order.
RECURSIVE Parameters(_)
Parameters(layers) ==
    IF layers = <<>> THEN <<>>
    ELSE LET l == Head(layers)
         IN  << [name  |-> l.name \o ".weight", dim |-> 2,
                 numel |-> l.in_features * l.out_features],
                [name  |-> l.name \o ".bias", dim |-> 1,
                 numel |-> l.out_features] >>
             \o Parameters(Tail(layers))

\* nn.Linear's own initialisation in DecisionModel(input_size): every
\* parameter is filled from the global generator as it then stands.
RECURSIVE DefaultInit(_, _)
DefaultInit(ps, g) ==
    IF ps = <<>> THEN [values |-> <<>>, rng |-> g]
    ELSE LET rest == DefaultInit(Tail(ps), Advance(g, Head(ps).numel))
         IN  [values |-> <<Draw(g, Head(ps).numel)>> \o rest.values,
              rng    |-> rest.rng]

\* The loop over model.parameters(): xavier_uniform_ for matrices (drawn
\* from the global generator), zeros_ for vectors.
RECURSIVE XavierInit(_, _)
XavierInit(ps, g) ==
    IF ps = <<>> THEN [values |-> <<>>, rng |-> g]
    ELSE LET p == Head(ps)
             v == IF p.dim > 1 THEN Draw(g, p.numel) ELSE Zeros(p.numel)
             h == IF p.dim > 1 THEN Advance(g, p.numel) ELSE g
             rest == XavierInit(Tail(ps), h)
         IN  [values |-> <<v>> \o rest.values, rng |-> rest.rng]

\* Width of the seed: hash(name) % 2**32.  The model checker's integers are
\* 32 bits wide, so the residue is taken over 16 bits.
SeedModulus == 2 ^ 16

NameCode(name) == CHOOSE i \in DOMAIN Catalog : Catalog[i] = name

\* hash(name) of a str: a keyed hash, the key fixed per process
\* (PYTHONHASHSEED; random unless the environment pins it).  May be negative.
StrHash(name, key) ==
    (NameCode(name) * 104729 + 12345) * (2 * key + 1) - 300000 * key

KeepGenerator(g, name, key) == g

\* torch.manual_seed(hash(name) % 2**32)
ManualSeed(g, name, key) == Seeded(StrHash(name, key) % SeedModulus)

\* ------------------------------------------------------------ the state
Names == Range(Catalog) \cup {SpendingName}

Scripts == {"spending", "batch"}

\* A fresh process running script s as execution r, after the previous
\* execution left the parameter values prev.
Start(s, r, prev) ==
    /\ script = s
    /\ run = r
    /\ pc = IF s = "spending" THEN "sp_create" ELSE "loop"
    /\ hashKey \in HashKeys
    /\ rng \in {Unseeded(e) : e \in Entropy}
    /\ proverDir \in (IF s = "spending" THEN BOOLEAN ELSE {FALSE})
    /\ model = Nothing
    /\ idx = 0
    /\ net = Nothing
    /\ weights = [n \in Names |-> Nothing]
    /\ prevWeights = prev
    /\ files = [n \in Names |-> Nothing]
    /\ validated = {}
    /\ generated = <<>>
    /\ attempted = <<>>
    /\ errors = <<>>
    /\ stdout = {}
    /\ reported = Nothing
    /\ raisedAt = "none"

Init == \E s \in Scripts : Start(s, 1, [n \in Names |-> Nothing])

\* ------------------------------------- create_spending_model.py: main()
\* create_spending_model up to helper.make_model / ir_version = 6
SpCreate ==
    /\ pc = "sp_create"
    /\ model' = Some(MakeModel(NumpySeeded(rng)))
    /\ rng' = SpendingRngAfter(NumpySeeded(rng))
    /\ weights' = [weights EXCEPT ![SpendingName] =
                      Some(model'[1].graph.initializer)]
    /\ pc' = "sp_check"
    /\ UNCHANGED <<script, run, hashKey, proverDir, idx, net, prevWeights,
                   files, validated, generated, attempted, errors, stdout,
                   reported, raisedAt>>

\* onnx.checker.check_model(model); return model.  A failed check raises
\* out of main.
SpCheck ==
    /\ pc = "sp_check"
    /\ IF CheckModel(model[1])
       THEN /\ validated' = validated \cup {SpendingName}
            /\ pc' = "sp_save"
            /\ UNCHANGED raisedAt
       ELSE /\ pc' = "aborted"
            /\ raisedAt' = "check"
            /\ UNCHANGED validated
    /\ UNCHANGED <<script, run, hashKey, rng, proverDir, model, idx, net,
                   weights, prevWeights, files, generated, attempted, errors,
                   stdout, reported>>

\* os.makedirs, onnx.save(model, output_path), print: the write succeeds or
\* raises an I/O error out of main.
SpSave ==
    /\ pc = "sp_save"
    /\ \/ /\ files' = [files EXCEPT ![SpendingName] = model]
          /\ stdout' = stdout \cup {"exported"}
          /\ pc' = "sp_size"
          /\ UNCHANGED raisedAt
       \/ /\ pc' = "aborted"
          /\ raisedAt' = "save"
          /\ UNCHANGED <<files, stdout>>
    /\ UNCHANGED <<script, run, hashKey, rng, proverDir, model, idx, net,
                   weights, prevWeights, validated, generated, attempted,
                   errors, reported>>

\* size = os.path.getsize(output_path); print
SpSize ==
    /\ pc = "sp_size"
    /\ stdout' = stdout \cup {"size"}
    /\ pc' = "sp_prover"
    /\ UNCHANGED <<script, run, hashKey, rng, proverDir, model, idx, net,
                   weights, prevWeights, files, validated, generated,
                   attempted, errors, reported, raisedAt>>

CopyAlways(exists) == TRUE

\* if os.path.exists(prover_dir):
ShouldCopy(exists) == exists

SpProver ==
    /\ pc = "sp_prover"
    /\ pc' = IF ShouldCopy(proverDir) THEN "sp_copy" ELSE "sp_done"
    /\ UNCHANGED <<script, run, hashKey, rng, proverDir, model, idx, net,
                   weights, prevWeights, files, validated, generated,
                   attempted, errors, stdout, reported, raisedAt>>

\* shutil.copy(output_path, prover_dir); print.  No handler surrounds the
\* copy: an exception it raises leaves main.
SpCopy ==
    /\ pc = "sp_copy"
    /\ \/ /\ stdout' = stdout \cup {"copied"}
          /\ pc' = "sp_done"
          /\ UNCHANGED raisedAt
       \/ /\ pc' = "aborted"
          /\ raisedAt' = "copy"
          /\ UNCHANGED stdout
    /\ UNCHANGED <<script, run, hashKey, rng, proverDir, model, idx, net,
                   weights, prevWeights, files, validated, generated,
                   attempted, errors, reported>>

\* print("\nDone!")
SpDone ==
    /\ pc = "sp_done"
    /\ stdout' = stdout \cup {"done"}
    /\ pc' = "done"
    /\ UNCHANGED <<script, run, hashKey, rng, proverDir, model, idx, net,
                   weights, prevWeights, files, validated, generated,
                   attempted, errors, reported, raisedAt>>

\* ---------------------------------------------- generate-models.py: main()
\* The entry the loop body is working on.
Cur == Catalog[idx]

\* for name, config in MODELS.items(): take the next entry and call
\* generate_model, or leave the loop.
Loop ==
    /\ pc = "loop"
    /\ IF idx < Len(Catalog)
       THEN /\ idx' = idx + 1
            /\ attempted' = Append(attempted, Catalog[idx + 1])
            /\ pc' = "g_construct"
       ELSE /\ pc' = "summary"
            /\ UNCHANGED <<idx, attempted>>
    /\ UNCHANGED <<script, run, hashKey, rng, proverDir, model, net, weights,
                   prevWeights, files, validated, generated, errors, stdout,
                   reported, raisedAt>>

\* input_size = config['input_size']; model = DecisionModel(input_size)
GenConstruct ==
    /\ pc = "g_construct"
    /\ LET layers == DecisionModel(MODELS[Cur].input_size, HiddenSize)
           filled == DefaultInit(Parameters(layers), rng)
       IN  /\ net' = Some([name |-> Cur, layers |-> layers,
                           values |-> filled.values])
           /\ rng' = filled.rng
    /\ pc' = "g_seed"
    /\ UNCHANGED <<script, run, hashKey, proverDir, model, idx, weights,
                   prevWeights, files, validated, generated, attempted,
                   errors, stdout, reported, raisedAt>>

\* torch.manual_seed(hash(name) % 2**32)
GenSeed ==
    /\ pc = "g_seed"
    /\ rng' = ManualSeed(rng, Cur, hashKey)
    /\ pc' = "g_init"
    /\ UNCHANGED <<script, run, hashKey, proverDir, model, idx, net, weights,
                   prevWeights, files, validated, generated, attempted,
                   errors, stdout, reported, raisedAt>>

\* for param in model.parameters(): ... ; model.eval()
GenInit ==
    /\ pc = "g_init"
    /\ LET filled == XavierInit(Parameters(net[1].layers), rng)
       IN  /\ net' = Some([net[1] EXCEPT !.values = filled.values])
           /\ weights' = [weights EXCEPT ![Cur] = filled.values]
           /\ rng' = filled.rng
    /\ pc' = "g_export"
    /\ UNCHANGED <<script, run, hashKey, proverDir, model, idx, prevWeights,
                   files, validated, generated, attempted, errors, stdout,
                   reported, raisedAt>>

ExceptPropagates(name, errs, gen) ==
    [pc |-> "aborted", errors |-> errs, generated |-> gen,
     raisedAt |-> "generate_model"]

ExceptAppends(name, errs, gen) ==
    [pc |-> "loop", errors |-> Append(errs, name),
     generated |-> Append(gen, name), raisedAt |-> "none"]

\* except Exception as e: print the error and the traceback, then go on
\* with the next entry.
Except(name, errs, gen) ==
    [pc |-> "loop", errors |-> Append(errs, name), generated |-> gen,
     raisedAt |-> "none"]

\* An exception raised inside generate_model(Cur) reaches main's handler.
Raise ==
    LET h == Except(Cur, errors, generated)
    IN  /\ pc' = h.pc
        /\ errors' = h.errors
        /\ generated' = h.generated
        /\ raisedAt' = h.raisedAt

\* dummy_input = torch.randn(1, input_size); torch.onnx.export(model,
\* dummy_input, output_path, ...): the file is written with the model's
\* current parameter values, or the exporter raises.
GenExport ==
    /\ pc = "g_export"
    /\ rng' = Advance(rng, Product(<<1, MODELS[Cur].input_size>>))
    /\ \/ /\ files' = [files EXCEPT ![Cur] = Some(net[1].values)]
          /\ pc' = "g_verify"
          /\ UNCHANGED <<errors, generated, raisedAt>>
       \/ /\ Raise
          /\ UNCHANGED files
    /\ UNCHANGED <<script, run, hashKey, proverDir, model, idx, net, weights,
                   prevWeights, validated, attempted, stdout, reported>>

\* onnx_model = onnx.load(output_path); onnx.checker.check_model(onnx_model):
\* passes or raises.  The exported graph is torch's, so the outcome is the
\* environment's.
GenVerify ==
    /\ pc = "g_verify"
    /\ \/ /\ validated' = validated \cup {Cur}
          /\ pc' = "g_return"
          /\ UNCHANGED <<errors, generated, raisedAt>>
       \/ /\ Raise
          /\ UNCHANGED validated
    /\ UNCHANGED <<script, run, hashKey, rng, proverDir, model, idx, net,
                   weights, prevWeights, files, attempted, stdout, reported>>

\* file_size = ...; print; return output_path; back in main:
\* generated.append((name, path))
GenReturn ==
    /\ pc = "g_return"
    /\ generated' = Append(generated, Cur)
    /\ pc' = "loop"
    /\ UNCHANGED <<script, run, hashKey, rng, proverDir, model, idx, net,
                   weights, prevWeights, files, validated, attempted, errors,
                   stdout, reported, raisedAt>>

\* print(f"Generated {len(generated)} models:") and the listing
Summary ==
    /\ pc = "summary"
    /\ reported' = Some(Len(generated))
    /\ pc' = "done"
    /\ UNCHANGED <<script, run, hashKey, rng, proverDir, model, idx, net,
                   weights, prevWeights, files, validated, generated,
                   attempted, errors, stdout, raisedAt>>

\* ------------------------------------------------------- a second process
\* The process has ended (normally or by an uncaught exception) and the same
\* script is started again.
Restart ==
    /\ pc \in {"done", "aborted"}
    /\ run < MaxRuns
    /\ script' = script
    /\ run' = run + 1
    /\ pc' = IF script = "spending" THEN "sp_create" ELSE "loop"
    /\ hashKey' \in HashKeys
    /\ rng' \in {Unseeded(e) : e \in Entropy}
    /\ proverDir' \in (IF script = "spending" THEN BOOLEAN ELSE {FALSE})
    /\ model' = Nothing
    /\ idx' = 0
    /\ net' = Nothing
    /\ weights' = [n \in Names |-> Nothing]
    /\ prevWeights' = weights
    /\ files' = [n \in Names |-> Nothing]
    /\ validated' = {}
    /\ generated' = <<>>
    /\ attempted' = <<>>
    /\ errors' = <<>>
    /\ stdout' = {}
    /\ reported' = Nothing
    /\ raisedAt' = "none"

Next ==
    \/ SpCreate
    \/ SpCheck
    \/ SpSave
    \/ SpSize
    \/ SpProver
    \/ SpCopy
    \/ SpDone
    \/ Loop
    \/ GenConstruct
    \/ GenSeed
    \/ GenInit
    \/ GenExport
    \/ GenVerify
    \/ GenReturn
    \/ Summary
    \/ Restart

Spec == Init /\ [][Next]_vars

\* ----------------------------------------------------------- properties
Written == {n \in Names : files[n] # Nothing}

\* C1: in both pipelines a model's file exists at its primary path only if
\* validation of that model has already succeeded.
C1_WrittenOnlyAfterValidation ==
    \A n \in Names : n \in Written => n \in validated

\* Entries of the catalog whose generate_model call has ended.
Finished ==
    IF pc \in {"loop", "summary", "done", "aborted"}
    THEN Range(SubSeq(Catalog, 1, idx))
    ELSE Range(SubSeq(Catalog, 1, idx - 1))

\* C2: whichever generate_model calls raise, the batch main attempts every
\* catalog entry exactly once in catalog order, catches and logs each
\* failure, never ends by an exception, stays on the path from the loop to
\* the summary, and has the file of every entry that did not fail.
C2_BatchSurvivesFailures ==
    script = "batch" =>
        /\ pc # "aborted"
        /\ raisedAt = "none"
        /\ pc \in {"loop", "g_construct", "g_seed", "g_init", "g_export",
                  "g_verify", "g_return", "summary", "done"}
        /\ idx \in 0..Len(Catalog)
        /\ attempted = SubSeq(Catalog, 1, idx)
        /\ Range(errors) \cup Range(generated) = Finished
        /\ Range(errors) \cap Range(generated) = {}
        /\ Len(errors) + Len(generated) = Cardinality(Finished)
        /\ \A n \in Finished : n \notin Range(errors) => n \in Written
        /\ pc \in {"summary", "done"} =>
              /\ attempted = Catalog
              /\ Len(generated) = Len(Catalog) - Len(errors)

C2_Witness ==
    /\ script = "batch"
    /\ pc = "done"
    /\ Len(errors) = 1
    /\ Len(generated) = 5
    /\ Cardinality(Written) >= 5

\* C3: in the single-model main a failing copy into the prover directory
\* does not end main by an exception.
C3_CopyFailureNonFatal ==
    ~(script = "spending" /\ pc = "aborted" /\ raisedAt = "copy")

\* The parameter values of catalog model n under hash key k, computed from
\* the name and the input size alone.
ValuesFromName(n, k) ==
    XavierInit(Parameters(DecisionModel(MODELS[n].input_size, HiddenSize)),
               Seeded(StrHash(n, k) % SeedModulus)).values

\* C4: within one run of the batch generator the generator is reseeded from
\* the name before a model's parameters are initialised, and the values
\* initialised and written for a model are those fixed by its name and input
\* size, whatever was generated, or failed, before it.
C4_WeightsIndependentOfPosition ==
    script = "batch" =>
        /\ pc = "g_init" => rng = Seeded(StrHash(Cur, hashKey) % SeedModulus)
        /\ \A n \in Range(Catalog) :
              /\ weights[n] # Nothing => weights[n] = ValuesFromName(n, hashKey)
              /\ files[n] # Nothing =>
                    files[n] = Some(ValuesFromName(n, hashKey))

C4_Witness ==
    /\ script = "batch"
    /\ idx = Len(Catalog)
    /\ pc = "g_return"
    /\ errors # <<>>
    /\ generated # <<>>
    /\ files[Cur] = Some(weights[Cur])

\* C5: two executions of the same script initialise the same values for the
\* same model.
C5_SameWeightsEveryRun ==
    \A n \in Names :
        (prevWeights[n] # Nothing /\ weights[n] # Nothing)
            => weights[n] = prevWeights[n]

\* Position of the node of graph g that consumes tensor t.
Consumer(g, t) ==
    CHOOSE k \in DOMAIN g.nodes : t \in Range(g.nodes[k].input)

\* C6: in the graph create_spending_model builds, every input of the node
\* at position k is the graph input, an initializer or the output of a node
\* before k; layers come in order and, inside a layer, MatMul comes before
\* Add, which comes before Relu.
C6_NoForwardReferences ==
    model # Nothing =>
        LET g == model[1].graph
            inits == {t.name : t \in Range(g.initializer)}
            earlier(k) == UNION {Range(g.nodes[j].output) : j \in 1..(k - 1)}
            mm(l) == Consumer(g, g.initializer[2 * l - 1].name)
            add(l) == Consumer(g, g.initializer[2 * l].name)
            layers == 1..(Len(g.initializer) \div 2)
        IN  /\ \A k \in DOMAIN g.nodes :
                  Range(g.nodes[k].input)
                      \subseteq ({"input"} \cup inits \cup earlier(k))
            /\ \A l \in layers :
                  /\ g.nodes[mm(l)].op_type = "MatMul"
                  /\ g.nodes[add(l)].op_type = "Add"
                  /\ mm(l) < add(l)
                  /\ g.nodes[mm(l)].output[1] \in Range(g.nodes[add(l)].input)
                  /\ (l + 1) \in layers => add(l) < mm(l + 1)
                  /\ \A k \in DOMAIN g.nodes :
                        (/\ g.nodes[k].op_type = "Relu"
                         /\ g.nodes[k].input[1] = g.nodes[add(l)].output[1])
                            => /\ add(l) < k
                               /\ (l + 1) \in layers => k < mm(l + 1)

C6_Witness ==
    /\ script = "spending"
    /\ model # Nothing
    /\ SpendingName \in validated
    /\ Len(model[1].graph.nodes) = 8

\* C7: in that graph every tensor name is the output of exactly one of the
\* 8 nodes, no node output is an initializer or the graph input, and the
\* last node's output is the declared graph output 'output'.
C7_SingleAssignment ==
    model # Nothing =>
        LET g == model[1].graph
            inits == {t.name : t \in Range(g.initializer)}
            outs == UNION {Range(g.nodes[k].output) : k \in DOMAIN g.nodes}
            used == UNION {Range(g.nodes[k].input) : k \in DOMAIN g.nodes}
        IN  /\ Len(g.nodes) = 8
            /\ \A k \in DOMAIN g.nodes : Len(g.nodes[k].output) = 1
            /\ \A j, k \in DOMAIN g.nodes :
                  j # k => g.nodes[j].output[1] # g.nodes[k].output[1]
            /\ outs \cap (inits \cup {"input"}) = {}
            /\ used \subseteq (outs \cup inits \cup {"input"})
            /\ g.nodes[Len(g.nodes)].output[1] = g.outputs[1].name
            /\ g.outputs[1].name = "output"

C7_Witness ==
    /\ script = "spending"
    /\ pc = "done"
    /\ files[SpendingName] = model
    /\ model # Nothing

C9_MissingProverDirSkipped ==
    (script = "spending" /\ ~proverDir) =>
        /\ pc # "sp_copy"
        /\ "copied" \notin stdout
        /\ raisedAt # "copy"
        /\ pc = "aborted" => SpendingName \notin Written
        /\ pc \in {"sp_create", "sp_check", "sp_save", "sp_size", "sp_prover",
                  "sp_done", "done", "aborted"}
        /\ pc \in {"sp_prover", "sp_done", "done"} =>
              /\ SpendingName \in Written
              /\ {"exported", "size"} \subseteq stdout
              /\ raisedAt = "none"
        /\ pc = "done" => "done" \in stdout

C9_Witness ==
    /\ script = "spending"
    /\ ~proverDir
    /\ pc = "done"
    /\ stdout = {"exported", "size", "done"}

\* C10: in the batch main `generated` always holds exactly the catalog names
\* whose generate_model call returned normally (file written, reloaded and
\* checked), each once and in catalog order; a name whose call raised is
\* never in it, and the count printed is the number of successful entries.
C10_GeneratedIsTheSuccesses ==
    script = "batch" =>
        /\ Range(generated) = {n \in Finished : n \in validated}
        /\ Range(generated) \subseteq Written
        /\ Range(generated) \cap Range(errors) = {}
        /\ \A i, j \in DOMAIN generated :
              i < j => NameCode(generated[i]) < NameCode(generated[j])
        /\ reported # Nothing =>
              reported = Some(Cardinality(Finished \ Range(errors)))

C10_Witness ==
    /\ script = "batch"
    /\ pc = "done"
    /\ reported = Some(4)
    /\ Len(errors) = 2
    /\ Range(errors) \cap validated = {}
    /\ Range(errors) \cap Written # {}

====
